---- MODULE Spec2Model ----
(***************************************************************************)
(* Model of nrf_py_programmer.py: the command-line tool that picks the one *)
(* connected debug probe of the requested device family and flashes a      *)
(* firmware image through pynrfjprog.                                      *)
(*                                                                         *)
(* The tool is sequential; pc is the statement about to run.  Every call   *)
(* into pynrfjprog that opens a session, talks to a probe or touches flash *)
(* either completes or raises (both outcomes are enabled); releasing a     *)
(* session completes.  An uncaught exception unwinds to the interpreter,   *)
(* which ends the process with status 1.  `assert` statements are enabled  *)
(* (the script is run by /usr/bin/python3 without -O).  A session is       *)
(* closed only where the code closes it: an explicit api.close() or the    *)
(* exit of a `with` block.                                                 *)
(***************************************************************************)
EXTENDS Integers, Sequences, FiniteSets, TLC

\* Number of probe serial numbers that can be connected to the host.
MaxProbes == 3

\* Number of invocations of the tool in one behaviour (same probe topology).
MaxRuns == 2

Snrs == 1..MaxProbes

\* Python's None for Optional[int]; serial numbers are positive.
None == 0

\* class Target(Enum): the values of the enumeration.
Target == {"NRF91_APP", "NRF91_MODEM", "NRF52_APP"}

\* Command-line words for the target argument; the last one is not a value
\* of the enumeration (the lookup by value is case-sensitive).
TargetArgs == Target \cup {"nrf52_app"}

\* pynrfjprog.Parameters.DeviceFamily values a probe may report.
DeviceFamily == {"NRF91", "NRF52", "NRF53"}

\* File paths, as sequences of characters.
Filepaths ==
    { <<"a", ".", "h", "e", "x">>,
      <<"a", ".", "b", "i", "n">>,
      <<"m", ".", "z", "i", "p">>,
      <<"h", "e", "x">>,
      <<"a", ".", "h", "e", "x", "x">>,
      <<>> }

\* str.endswith
endswith(s, suffix) ==
    /\ Len(s) >= Len(suffix)
    /\ SubSeq(s, Len(s) - Len(suffix) + 1, Len(s)) = suffix

\* All orderings of a finite set, as sequences without repetition.
Orderings(S) ==
    { f \in [1..Cardinality(S) -> S] : \A i, j \in 1..Cardinality(S) : f[i] = f[j] => i = j }

VARIABLES
    argv,          \* <<target word, filepath>> given on the command line
    connected,     \* serial number -> reported device family, or "absent"
    pc,            \* statement about to run ("idle": no process is running)
    target,        \* args.target ("none" before parsing)
    filepath,      \* args.filepath
    enum_api,      \* HighLevel.API of program_proc: "unopened" | "open" | "closed"
    prog_api,      \* API of program_nrf91 / program_nrf52: same values
    probe,         \* probe object of program_nrf91: "none" | "DebugProbe" | "IPCDFUProbe"
    modem_fw,      \* parameter of program_nrf91
    snrs,          \* list returned by api.get_connected_probes()
    idx,           \* position in snrs of the loop of find_target_snr
    chosen_snr,    \* local of find_target_snr
    snr,           \* value returned by find_target_snr (None until it returns)
    ops,           \* calls made into pynrfjprog by this invocation, in order
    error,         \* exception that ended the invocation ("none" if none)
    raised_at,     \* pc at which it was raised
    exit_code,     \* process exit status (-1 while running)
    runs,          \* invocations started so far
    resolved       \* target -> serial number returned by an earlier invocation

vars == <<argv, connected, pc, target, filepath, enum_api, prog_api, probe, modem_fw,
          snrs, idx, chosen_snr, snr, ops, error, raised_at, exit_code, runs, resolved>>

sessions == <<enum_api, prog_api, probe, modem_fw>>
scan == <<snrs, idx, chosen_snr, snr>>
outcome == <<error, raised_at, exit_code>>
history == <<runs, resolved, connected, argv>>

\* One call into pynrfjprog.
Op(name, sess, via, s, f, ok) ==
    [op |-> name, sess |-> sess, via |-> via, snr |-> s, file |-> f, ok |-> ok]

\* An uncaught exception: the interpreter prints the traceback and exits 1.
Raise(e) ==
    /\ pc' = "exit"
    /\ error' = e
    /\ raised_at' = pc
    /\ exit_code' = 1

Init ==
    /\ argv = <<"", <<>>>>
    /\ connected \in [Snrs -> DeviceFamily \cup {"absent"}]
    /\ pc = "idle"
    /\ target = "none"
    /\ filepath = <<>>
    /\ enum_api = "unopened"
    /\ prog_api = "unopened"
    /\ probe = "none"
    /\ modem_fw = FALSE
    /\ snrs = <<>>
    /\ idx = 1
    /\ chosen_snr = None
    /\ snr = None
    /\ ops = <<>>
    /\ error = "none"
    /\ raised_at = "none"
    /\ exit_code = -1
    /\ runs = 0
    /\ resolved = [t \in Target |-> None]

\* main: parser.parse_args().  type=Target looks the word up by value; a word
\* that is not a value makes argparse report an error and exit with status 2.
ParseArgs ==
    /\ pc = "main_parse"
    /\ IF argv[1] \in Target
       THEN /\ target' = argv[1]
            /\ filepath' = argv[2]
            /\ pc' = "main_validate"
            /\ UNCHANGED outcome
       ELSE /\ pc' = "exit"
            /\ error' = "ArgumentError"
            /\ raised_at' = pc
            /\ exit_code' = 2
            /\ UNCHANGED <<target, filepath>>
    /\ UNCHANGED <<sessions, scan, ops, history>>

\* Validate with the dot left out of the suffixes.
Validate_NoDot ==
    /\ pc = "main_validate"
    /\ IF target \in {"NRF52_APP", "NRF91_APP"}
       THEN IF endswith(filepath, <<"h", "e", "x">>) \/ endswith(filepath, <<"b", "i", "n">>)
            THEN pc' = "proc_open" /\ UNCHANGED outcome
            ELSE Raise("AssertionError: Application targets should point to a .hex or .bin file")
       ELSE IF target # "NRF91_MODEM"
            THEN Raise("AssertionError")
            ELSE IF endswith(filepath, <<"z", "i", "p">>)
                 THEN pc' = "proc_open" /\ UNCHANGED outcome
                 ELSE Raise("AssertionError: Modem targets should point to a .zip file")
    /\ UNCHANGED <<target, filepath, sessions, scan, ops, history>>

\* main: the extension checks.
Validate ==
    /\ pc = "main_validate"
    /\ IF target \in {"NRF52_APP", "NRF91_APP"}
       THEN IF endswith(filepath, <<".", "h", "e", "x">>) \/ endswith(filepath, <<".", "b", "i", "n">>)
            THEN pc' = "proc_open" /\ UNCHANGED outcome
            ELSE Raise("AssertionError: Application targets should point to a .hex or .bin file")
       ELSE IF target # "NRF91_MODEM"
            THEN Raise("AssertionError")
            ELSE IF endswith(filepath, <<".", "z", "i", "p">>)
                 THEN pc' = "proc_open" /\ UNCHANGED outcome
                 ELSE Raise("AssertionError: Modem targets should point to a .zip file")
    /\ UNCHANGED <<target, filepath, sessions, scan, ops, history>>

\* program_proc: api = HighLevel.API(); api.open()
ProcOpen ==
    /\ pc = "proc_open"
    /\ \E ok \in BOOLEAN :
        /\ ops' = Append(ops, Op("open", "enum", "HighLevel.API", None, <<>>, ok))
        /\ IF ok
           THEN /\ enum_api' = "open"
                /\ pc' = "find_get_probes"
                /\ UNCHANGED outcome
           ELSE /\ Raise("APIError")
                /\ UNCHANGED enum_api
    /\ UNCHANGED <<target, filepath, prog_api, probe, modem_fw, scan, history>>

\* find_target_snr: assert api.is_open(); snrs = api.get_connected_probes();
\* chosen_snr = None.  The SDK lists the connected probes in an order the
\* tool does not control.
FindGetProbes ==
    /\ pc = "find_get_probes"
    /\ IF enum_api # "open"
       THEN /\ Raise("AssertionError: API is not open")
            /\ UNCHANGED <<ops, scan>>
       ELSE \E ok \in BOOLEAN :
            /\ ops' = Append(ops, Op("get_connected_probes", "enum", "HighLevel.API", None, <<>>, ok))
            /\ IF ok
               THEN /\ snrs' \in Orderings({s \in Snrs : connected[s] # "absent"})
                    /\ idx' = 1
                    /\ chosen_snr' = None
                    /\ pc' = "find_scan"
                    /\ UNCHANGED <<snr, outcome>>
               ELSE /\ Raise("APIError")
                    /\ UNCHANGED scan
    /\ UNCHANGED <<target, filepath, sessions, history>>

\* FindScan without the two `assert chosen_snr is None`: the last match wins.
FindScan_LastMatchWins ==
    /\ pc = "find_scan"
    /\ idx <= Len(snrs)
    /\ LET s == snrs[idx]
           made == Op("DebugProbe", "enum", "HighLevel.API", s, <<>>, TRUE)
       IN  \/ /\ ops' = Append(ops, [made EXCEPT !.ok = FALSE])
              /\ Raise("APIError")
              /\ UNCHANGED scan
           \/ /\ ops' = ops \o <<made, Op("get_device_info", "enum", "DebugProbe", s, <<>>, FALSE)>>
              /\ Raise("APIError")
              /\ UNCHANGED scan
           \/ /\ ops' = ops \o <<made, Op("get_device_info", "enum", "DebugProbe", s, <<>>, TRUE)>>
              /\ IF \/ target \in {"NRF91_APP", "NRF91_MODEM"} /\ connected[s] = "NRF91"
                    \/ target \in {"NRF52_APP"} /\ connected[s] = "NRF52"
                 THEN chosen_snr' = s
                 ELSE UNCHANGED chosen_snr
              /\ idx' = idx + 1
              /\ UNCHANGED <<pc, snrs, snr, outcome>>
    /\ UNCHANGED <<target, filepath, sessions, history>>

\* FindScan with the family comparison missing from the NRF52 branch.
FindScan_NoFamilyCheck ==
    /\ pc = "find_scan"
    /\ idx <= Len(snrs)
    /\ LET s == snrs[idx]
           made == Op("DebugProbe", "enum", "HighLevel.API", s, <<>>, TRUE)
       IN  \/ /\ ops' = Append(ops, [made EXCEPT !.ok = FALSE])
              /\ Raise("APIError")
              /\ UNCHANGED scan
           \/ /\ ops' = ops \o <<made, Op("get_device_info", "enum", "DebugProbe", s, <<>>, FALSE)>>
              /\ Raise("APIError")
              /\ UNCHANGED scan
           \/ /\ ops' = ops \o <<made, Op("get_device_info", "enum", "DebugProbe", s, <<>>, TRUE)>>
              /\ IF target \in {"NRF91_APP", "NRF91_MODEM"} /\ connected[s] = "NRF91"
                 THEN IF chosen_snr # None
                      THEN /\ Raise("AssertionError: Multiple NRF91 processors connected!")
                           /\ UNCHANGED scan
                      ELSE /\ chosen_snr' = s
                           /\ idx' = idx + 1
                           /\ UNCHANGED <<pc, snrs, snr, outcome>>
                 ELSE IF target \in {"NRF52_APP"}
                      THEN IF chosen_snr # None
                           THEN /\ Raise("AssertionError: Multiple NRF52 processors connected!")
                                /\ UNCHANGED scan
                           ELSE /\ chosen_snr' = s
                                /\ idx' = idx + 1
                                /\ UNCHANGED <<pc, snrs, snr, outcome>>
                      ELSE /\ idx' = idx + 1
                           /\ UNCHANGED <<pc, snrs, chosen_snr, snr, outcome>>
    /\ UNCHANGED <<target, filepath, sessions, history>>

\* find_target_snr: one iteration of `for snr in snrs`.
FindScan ==
    /\ pc = "find_scan"
    /\ idx <= Len(snrs)
    /\ LET s == snrs[idx]
           made == Op("DebugProbe", "enum", "HighLevel.API", s, <<>>, TRUE)
       IN  \/ \* HighLevel.DebugProbe(api, snr) raises
              /\ ops' = Append(ops, [made EXCEPT !.ok = FALSE])
              /\ Raise("APIError")
              /\ UNCHANGED scan
           \/ \* probe.get_device_info() raises
              /\ ops' = ops \o <<made, Op("get_device_info", "enum", "DebugProbe", s, <<>>, FALSE)>>
              /\ Raise("APIError")
              /\ UNCHANGED scan
           \/ \* dev_info.device_family is the family of the chip behind the probe
              /\ ops' = ops \o <<made, Op("get_device_info", "enum", "DebugProbe", s, <<>>, TRUE)>>
              /\ IF target \in {"NRF91_APP", "NRF91_MODEM"} /\ connected[s] = "NRF91"
                 THEN IF chosen_snr # None
                      THEN /\ Raise("AssertionError: Multiple NRF91 processors connected!")
                           /\ UNCHANGED scan
                      ELSE /\ chosen_snr' = s
                           /\ idx' = idx + 1
                           /\ UNCHANGED <<pc, snrs, snr, outcome>>
                 ELSE IF target \in {"NRF52_APP"} /\ connected[s] = "NRF52"
                      THEN IF chosen_snr # None
                           THEN /\ Raise("AssertionError: Multiple NRF52 processors connected!")
                                /\ UNCHANGED scan
                           ELSE /\ chosen_snr' = s
                                /\ idx' = idx + 1
                                /\ UNCHANGED <<pc, snrs, snr, outcome>>
                      ELSE /\ idx' = idx + 1
                           /\ UNCHANGED <<pc, snrs, chosen_snr, snr, outcome>>
    /\ UNCHANGED <<target, filepath, sessions, history>>

\* FindReturn without `assert chosen_snr is not None`.
FindReturn_NoAssert ==
    /\ pc = "find_scan"
    /\ idx > Len(snrs)
    /\ snr' = chosen_snr
    /\ pc' = "proc_close"
    /\ UNCHANGED <<target, filepath, sessions, snrs, idx, chosen_snr, ops, outcome, history>>

\* find_target_snr: the loop is over; assert chosen_snr is not None;
\* return chosen_snr (assigned to snr in program_proc).
FindReturn ==
    /\ pc = "find_scan"
    /\ idx > Len(snrs)
    /\ IF chosen_snr = None
       THEN /\ Raise("AssertionError: No SNR matching target found!")
            /\ UNCHANGED snr
       ELSE /\ snr' = chosen_snr
            /\ pc' = "proc_close"
            /\ UNCHANGED outcome
    /\ UNCHANGED <<target, filepath, sessions, snrs, idx, chosen_snr, ops, history>>

\* ProcClose with the api.close() left out.
ProcClose_NoClose ==
    /\ pc = "proc_close"
    /\ pc' = "proc_dispatch"
    /\ UNCHANGED <<target, filepath, sessions, scan, ops, outcome, history>>

\* program_proc: api.close() after find_target_snr has returned.
ProcClose ==
    /\ pc = "proc_close"
    /\ ops' = Append(ops, Op("close", "enum", "HighLevel.API", None, <<>>, TRUE))
    /\ enum_api' = "closed"
    /\ pc' = "proc_dispatch"
    /\ UNCHANGED <<target, filepath, prog_api, probe, modem_fw, scan, outcome, history>>

\* program_proc: the choice of the programming routine.
Dispatch ==
    /\ pc = "proc_dispatch"
    /\ IF target = "NRF91_MODEM"
       THEN /\ modem_fw' = TRUE
            /\ pc' = "nrf91_open"
            /\ UNCHANGED outcome
       ELSE IF target = "NRF91_APP"
            THEN /\ modem_fw' = FALSE
                 /\ pc' = "nrf91_open"
                 /\ UNCHANGED outcome
            ELSE IF target # "NRF52_APP"
                 THEN /\ Raise("AssertionError")
                      /\ UNCHANGED modem_fw
                 ELSE /\ pc' = "nrf52_enter"
                      /\ UNCHANGED <<modem_fw, outcome>>
    /\ UNCHANGED <<target, filepath, enum_api, prog_api, probe, scan, ops, history>>

\* program_nrf91: api = HighLevel.API(); api.open()
Nrf91Open ==
    /\ pc = "nrf91_open"
    /\ \E ok \in BOOLEAN :
        /\ ops' = Append(ops, Op("open", "prog", "HighLevel.API", None, <<>>, ok))
        /\ IF ok
           THEN /\ prog_api' = "open"
                /\ pc' = "nrf91_probe"
                /\ UNCHANGED outcome
           ELSE /\ Raise("APIError")
                /\ UNCHANGED prog_api
    /\ UNCHANGED <<target, filepath, enum_api, probe, modem_fw, scan, history>>

\* program_nrf91: the probe object, IPCDFUProbe(api, snr, CP_MODEM) for the
\* modem and DebugProbe(api, snr) for the application.
Nrf91Probe ==
    /\ pc = "nrf91_probe"
    /\ LET kind == IF modem_fw THEN "IPCDFUProbe" ELSE "DebugProbe"
       IN  \E ok \in BOOLEAN :
            /\ ops' = Append(ops, Op(kind, "prog", "HighLevel.API", snr, <<>>, ok))
            /\ IF ok
               THEN /\ probe' = kind
                    /\ pc' = "nrf91_program"
                    /\ UNCHANGED outcome
               ELSE /\ Raise("APIError")
                    /\ UNCHANGED probe
    /\ UNCHANGED <<target, filepath, enum_api, prog_api, modem_fw, scan, history>>

\* program_nrf91: probe.program(filepath)
Nrf91Program ==
    /\ pc = "nrf91_program"
    /\ \E ok \in BOOLEAN :
        /\ ops' = Append(ops, Op("program", "prog", probe, snr, filepath, ok))
        /\ IF ok
           THEN pc' = "nrf91_verify" /\ UNCHANGED outcome
           ELSE Raise("APIError")
    /\ UNCHANGED <<target, filepath, sessions, scan, history>>

\* Nrf91Verify with a failed verification swallowed.
Nrf91Verify_Swallowed ==
    /\ pc = "nrf91_verify"
    /\ IF modem_fw
       THEN \E ok \in BOOLEAN :
            /\ ops' = Append(ops, Op("verify", "prog", probe, snr, filepath, ok))
            /\ pc' = "nrf91_close"
            /\ UNCHANGED outcome
       ELSE /\ pc' = "nrf91_close"
            /\ UNCHANGED <<ops, outcome>>
    /\ UNCHANGED <<target, filepath, sessions, scan, history>>

\* Nrf91Verify without the `if modem_fw`.
Nrf91Verify_Always ==
    /\ pc = "nrf91_verify"
    /\ \E ok \in BOOLEAN :
        /\ ops' = Append(ops, Op("verify", "prog", probe, snr, filepath, ok))
        /\ IF ok
           THEN pc' = "nrf91_close" /\ UNCHANGED outcome
           ELSE Raise("APIError")
    /\ UNCHANGED <<target, filepath, sessions, scan, history>>

\* program_nrf91: if modem_fw: probe.verify(filepath)
Nrf91Verify ==
    /\ pc = "nrf91_verify"
    /\ IF modem_fw
       THEN \E ok \in BOOLEAN :
            /\ ops' = Append(ops, Op("verify", "prog", probe, snr, filepath, ok))
            /\ IF ok
               THEN pc' = "nrf91_close" /\ UNCHANGED outcome
               ELSE Raise("APIError")
       ELSE /\ pc' = "nrf91_close"
            /\ UNCHANGED <<ops, outcome>>
    /\ UNCHANGED <<target, filepath, sessions, scan, history>>

\* program_nrf91: api.close(); program_proc and then main go on to return.
Nrf91Close ==
    /\ pc = "nrf91_close"
    /\ ops' = Append(ops, Op("close", "prog", "HighLevel.API", None, <<>>, TRUE))
    /\ prog_api' = "closed"
    /\ pc' = "main_return"
    /\ UNCHANGED <<target, filepath, enum_api, probe, modem_fw, scan, outcome, history>>

\* program_nrf52: an exception inside the `with` block: LowLevel.API.__exit__
\* closes the session, then the exception goes on.
WithExitRaise(failed) ==
    /\ ops' = ops \o <<failed, Op("close", "prog", "LowLevel.API", None, <<>>, TRUE)>>
    /\ prog_api' = "closed"
    /\ Raise("APIError")

\* program_nrf52: with LowLevel.API("NRF52") as api
Nrf52Enter ==
    /\ pc = "nrf52_enter"
    /\ \E ok \in BOOLEAN :
        /\ ops' = Append(ops, Op("open", "prog", "LowLevel.API", None, <<>>, ok))
        /\ IF ok
           THEN /\ prog_api' = "open"
                /\ pc' = "nrf52_connect"
                /\ UNCHANGED outcome
           ELSE /\ Raise("APIError")
                /\ UNCHANGED prog_api
    /\ UNCHANGED <<target, filepath, enum_api, probe, modem_fw, scan, history>>

\* program_nrf52: api.connect_to_emu_with_snr(snr)
Nrf52Connect ==
    /\ pc = "nrf52_connect"
    /\ \/ /\ ops' = Append(ops, Op("connect_to_emu_with_snr", "prog", "LowLevel.API", snr, <<>>, TRUE))
          /\ pc' = "nrf52_erase"
          /\ UNCHANGED <<prog_api, outcome>>
       \/ WithExitRaise(Op("connect_to_emu_with_snr", "prog", "LowLevel.API", snr, <<>>, FALSE))
    /\ UNCHANGED <<target, filepath, enum_api, probe, modem_fw, scan, history>>

\* Nrf52Erase with the api.erase_all() left out.
Nrf52Erase_Skipped ==
    /\ pc = "nrf52_erase"
    /\ pc' = "nrf52_program"
    /\ UNCHANGED <<target, filepath, sessions, scan, ops, outcome, history>>

\* program_nrf52: api.erase_all()
Nrf52Erase ==
    /\ pc = "nrf52_erase"
    /\ \/ /\ ops' = Append(ops, Op("erase_all", "prog", "LowLevel.API", snr, <<>>, TRUE))
          /\ pc' = "nrf52_program"
          /\ UNCHANGED <<prog_api, outcome>>
       \/ WithExitRaise(Op("erase_all", "prog", "LowLevel.API", snr, <<>>, FALSE))
    /\ UNCHANGED <<target, filepath, enum_api, probe, modem_fw, scan, history>>

\* program_nrf52: api.program_file(filepath)
Nrf52ProgramFile ==
    /\ pc = "nrf52_program"
    /\ \/ /\ ops' = Append(ops, Op("program_file", "prog", "LowLevel.API", snr, filepath, TRUE))
          /\ pc' = "nrf52_disconnect"
          /\ UNCHANGED <<prog_api, outcome>>
       \/ WithExitRaise(Op("program_file", "prog", "LowLevel.API", snr, filepath, FALSE))
    /\ UNCHANGED <<target, filepath, enum_api, probe, modem_fw, scan, history>>

\* program_nrf52: api.disconnect_from_emu(), then the `with` block ends and
\* closes the session; program_proc and then main go on to return.
Nrf52Disconnect ==
    /\ pc = "nrf52_disconnect"
    /\ \/ /\ ops' = ops \o <<Op("disconnect_from_emu", "prog", "LowLevel.API", snr, <<>>, TRUE),
                             Op("close", "prog", "LowLevel.API", None, <<>>, TRUE)>>
          /\ prog_api' = "closed"
          /\ pc' = "main_return"
          /\ UNCHANGED outcome
       \/ WithExitRaise(Op("disconnect_from_emu", "prog", "LowLevel.API", snr, <<>>, FALSE))
    /\ UNCHANGED <<target, filepath, enum_api, probe, modem_fw, scan, history>>

\* main: return 0; the interpreter ends with status 0.
MainReturn ==
    /\ pc = "main_return"
    /\ pc' = "exit"
    /\ exit_code' = 0
    /\ UNCHANGED <<target, filepath, sessions, scan, ops, error, raised_at, history>>

\* The process ends: nothing of it is left (the operating system reclaims
\* whatever it still held) but the identifier it resolved, kept as history.
ProcessExit ==
    /\ pc = "exit"
    /\ pc' = "idle"
    /\ resolved' = IF snr # None THEN [resolved EXCEPT ![target] = snr] ELSE resolved
    /\ argv' = <<"", <<>>>>
    /\ target' = "none"
    /\ filepath' = <<>>
    /\ enum_api' = "unopened"
    /\ prog_api' = "unopened"
    /\ probe' = "none"
    /\ modem_fw' = FALSE
    /\ snrs' = <<>>
    /\ idx' = 1
    /\ chosen_snr' = None
    /\ snr' = None
    /\ ops' = <<>>
    /\ error' = "none"
    /\ raised_at' = "none"
    /\ exit_code' = -1
    /\ UNCHANGED <<runs, connected>>

\* The tool is started, with any arguments, against the connected probes.
Invoke ==
    /\ pc = "idle"
    /\ runs < MaxRuns
    /\ runs' = runs + 1
    /\ argv' \in TargetArgs \X Filepaths
    /\ pc' = "main_parse"
    /\ UNCHANGED <<connected, target, filepath, sessions, scan, ops, outcome, resolved>>

Next ==
    \/ ParseArgs
    \/ Validate
    \/ ProcOpen
    \/ FindGetProbes
    \/ FindScan
    \/ FindReturn
    \/ ProcClose
    \/ Dispatch
    \/ Nrf91Open
    \/ Nrf91Probe
    \/ Nrf91Program
    \/ Nrf91Verify
    \/ Nrf91Close
    \/ Nrf52Enter
    \/ Nrf52Connect
    \/ Nrf52Erase
    \/ Nrf52ProgramFile
    \/ Nrf52Disconnect
    \/ MainReturn
    \/ ProcessExit
    \/ Invoke

Spec == Init /\ [][Next]_vars

(***************************************************************************)
(* Vocabulary of the properties.                                           *)
(***************************************************************************)

\* The extension a target's image must carry (the rule table of the
\* command line).
RequiredExtensions(t) ==
    IF t = "NRF91_MODEM"
    THEN { <<".", "z", "i", "p">> }
    ELSE { <<".", "h", "e", "x">>, <<".", "b", "i", "n">> }

ExtensionRuleMet(t, f) == \E e \in RequiredExtensions(t) : endswith(f, e)

\* The device family a target is flashed on.
MatchingFamily(t) == IF t = "NRF52_APP" THEN "NRF52" ELSE "NRF91"

\* The connected probes that report the family of the requested target.
Matching == {s \in Snrs : target \in Target /\ connected[s] = MatchingFamily(target)}

\* Number of matching probes among the first i entries of the probe list.
MatchCount(i) == Cardinality({j \in 1..i : j <= Len(snrs) /\ snrs[j] \in Matching})

AmbiguousError ==
    IF MatchingFamily(target) = "NRF91"
    THEN "AssertionError: Multiple NRF91 processors connected!"
    ELSE "AssertionError: Multiple NRF52 processors connected!"

AmbiguousErrors ==
    {"AssertionError: Multiple NRF91 processors connected!",
     "AssertionError: Multiple NRF52 processors connected!"}

NoTargetFoundError == "AssertionError: No SNR matching target found!"

\* Control points after find_target_snr has returned to program_proc.
PostResolution ==
    {"proc_close", "proc_dispatch", "nrf91_open", "nrf91_probe", "nrf91_program",
     "nrf91_verify", "nrf91_close", "nrf52_enter", "nrf52_connect", "nrf52_erase",
     "nrf52_program", "nrf52_disconnect", "main_return"}

\* The invocation ended inside find_target_snr on one of its own assertions.
ScanAsserted == pc = "exit" /\ raised_at = "find_scan" /\ error # "APIError"

OpsNamed(name) == {i \in DOMAIN ops : ops[i].op = name}

(***************************************************************************)
(* Properties.                                                             *)
(***************************************************************************)

\* C1: when the filepath does not carry the extension the target requires,
\* the invocation ends in the validation of main with a non-zero status,
\* having made no call into the SDK and opened no session.
C1_ValidationBeforeProbing ==
    (target \in Target /\ pc # "main_validate" /\ ~ExtensionRuleMet(target, filepath))
        => /\ pc = "exit"
           /\ raised_at = "main_validate"
           /\ exit_code # 0
           /\ ops = <<>>
           /\ enum_api = "unopened"
           /\ prog_api = "unopened"

C1_Witness ==
    /\ pc = "exit"
    /\ raised_at = "main_validate"
    /\ target = "NRF91_MODEM"
    /\ filepath = <<"a", ".", "h", "e", "x">>

\* C2: with two or more connected probes of the target's family,
\* find_target_snr never returns an identifier and never reports that no
\* target was found; the scan stops at the second match: no probe after it
\* is queried, and the assertion that ends the scan is the ambiguity error of
\* that family, raised at the second match, whatever the order of the list.
C2_AmbiguousFailsFast ==
    (target \in Target /\ Cardinality(Matching) >= 2)
        => /\ snr = None
           /\ pc \notin PostResolution
           /\ error # NoTargetFoundError
           /\ pc = "find_scan" => MatchCount(idx - 1) <= 1
           /\ Len(ops) > 0 => MatchCount(idx) <= 2
           /\ ScanAsserted
                => /\ error = AmbiguousError
                   /\ snrs[idx] \in Matching
                   /\ MatchCount(idx) = 2
                   /\ \A i \in DOMAIN ops : ops[i].ok
                   /\ {ops[i].snr : i \in OpsNamed("get_device_info")} = {snrs[j] : j \in 1..idx}

C2_Witness ==
    /\ error \in AmbiguousErrors
    /\ Cardinality(Matching) >= 2
    /\ Len(snrs) = 3
    /\ idx = 2

\* C3: with no connected probe of the target's family (no probe at all, or
\* only probes of other families), find_target_snr never returns an
\* identifier; the scan runs to its end, and the assertion that ends it is
\* the no-target error, raised after every connected probe was queried.
C3_NoMatchFails ==
    (target \in Target /\ Cardinality(Matching) = 0)
        => /\ snr = None
           /\ chosen_snr = None
           /\ pc \notin PostResolution
           /\ error \notin AmbiguousErrors
           /\ ScanAsserted
                => /\ error = NoTargetFoundError
                   /\ idx = Len(snrs) + 1
                   /\ \A i \in DOMAIN ops : ops[i].ok
                   /\ {ops[i].snr : i \in OpsNamed("get_device_info")}
                        = {s \in Snrs : connected[s] # "absent"}

C3_Witness ==
    /\ error = NoTargetFoundError
    /\ target = "NRF52_APP"
    /\ \E s \in Snrs : connected[s] = "NRF91"

\* C4: with exactly one connected probe of the target's family,
\* find_target_snr raises neither of its own errors, and once the scan is
\* over it has chosen, and returns, that probe's identifier, whatever else
\* is connected and whatever the order of the list; an identifier returned
\* for a target equals the one an earlier invocation returned for it.
C4_UniqueMatchReturned ==
    /\ (target \in Target /\ Cardinality(Matching) = 1)
        => /\ error \notin AmbiguousErrors \cup {NoTargetFoundError}
           /\ ~ScanAsserted
           /\ (pc = "find_scan" /\ idx > Len(snrs)) => chosen_snr \in Matching
           /\ pc \in PostResolution => snr \in Matching
           /\ snr # None => snr \in Matching
    /\ (target \in Target /\ snr # None /\ resolved[target] # None)
        => snr = resolved[target]

C4_Witness ==
    /\ pc = "proc_close"
    /\ Cardinality(Matching) = 1
    /\ Len(snrs) = 3
    /\ snrs[3] = snr
    /\ resolved[target] = snr

\* C5: in every terminal state of an invocation the enumeration session of
\* program_proc is not open.
C5_EnumSessionReleased == pc = "exit" => enum_api # "open"

\* C6: in every terminal state of an invocation the programming session is
\* not open.
C6_ProgSessionClosed == pc = "exit" => prog_api # "open"

\* C7: the enumeration session and the programming session are never open
\* together, and the programming session is opened only once the
\* enumeration session has been closed.
C7_AtMostOneSession ==
    /\ ~(enum_api = "open" /\ prog_api = "open")
    /\ prog_api # "unopened" => enum_api = "closed"
    /\ \A i \in DOMAIN ops :
        ops[i].sess = "prog"
            => \E j \in 1..(i - 1) : ops[j].op = "close" /\ ops[j].sess = "enum"

C7_Witness ==
    /\ prog_api = "open"
    /\ enum_api = "closed"
    /\ pc = "nrf52_erase"

\* Every step of the invocation succeeded: the arguments passed validation,
\* a probe was resolved, no call into the SDK failed, and the image was
\* written to that probe (after a full erase for NRF52_APP, and verified for
\* NRF91_MODEM).
AllStepsSucceeded ==
    /\ target \in Target
    /\ ExtensionRuleMet(target, filepath)
    /\ snr \in Matching
    /\ \A i \in DOMAIN ops : ops[i].ok
    /\ \E i \in OpsNamed("program") \cup OpsNamed("program_file") :
        ops[i].snr = snr /\ ops[i].file = filepath
    /\ target = "NRF91_MODEM" => OpsNamed("verify") # {}
    /\ target = "NRF52_APP" => OpsNamed("erase_all") # {}

\* No call is made twice, and after a failed call nothing follows but the
\* release of the session.
NoStepRetried ==
    /\ Cardinality({<<ops[i].op, ops[i].sess, ops[i].snr>> : i \in DOMAIN ops}) = Len(ops)
    /\ \A i \in 1..(Len(ops) - 1) :
        ~ops[i].ok => (i = Len(ops) - 1 /\ ops[Len(ops)].op = "close")

\* C8: an invocation ends with status 0 exactly when validation, resolution
\* and every programming step succeeded, and no step is ever retried.
C8_ExitCode ==
    /\ NoStepRetried
    /\ pc = "exit" => (exit_code = 0 <=> AllStepsSucceeded)
    /\ pc = "exit" => exit_code \in {0, 1, 2}

C8_Witness ==
    /\ pc = "exit"
    /\ exit_code = 0
    /\ target = "NRF91_MODEM"
    /\ Len(snrs) = 2

\* C9: verify is called only for NRF91_MODEM, right after a successful
\* program of the same file on the same co-processor probe, and it is called
\* whenever that program succeeded; NRF91_APP is programmed through a
\* DebugProbe and NRF91_MODEM through an IPCDFUProbe.
C9_VerifyOnlyModem ==
    /\ \A i \in OpsNamed("verify") :
        /\ target = "NRF91_MODEM"
        /\ i > 1
        /\ ops[i - 1].op = "program"
        /\ ops[i - 1].ok
        /\ ops[i - 1].via = "IPCDFUProbe"
        /\ ops[i].via = "IPCDFUProbe"
        /\ ops[i - 1].file = filepath
        /\ ops[i].file = filepath
        /\ ops[i - 1].snr = snr
        /\ ops[i].snr = snr
    /\ (/\ target = "NRF91_MODEM"
        /\ pc \in {"nrf91_close", "main_return", "exit"}
        /\ \E i \in OpsNamed("program") : ops[i].ok)
            => OpsNamed("verify") # {}
    /\ \A i \in OpsNamed("program") :
        ops[i].via = (IF target = "NRF91_APP" THEN "DebugProbe" ELSE "IPCDFUProbe")

C9_Witness ==
    /\ pc = "nrf91_close"
    /\ \E i \in OpsNamed("verify") : ops[i].ok

\* C10: for NRF52_APP the image is written only after erase_all succeeded on
\* the session connected to the resolved probe, and never after a failed
\* erase; for the NRF91 targets no erase_all is issued.
C10_EraseBeforeProgram ==
    /\ \A i \in OpsNamed("program_file") :
        /\ target = "NRF52_APP"
        /\ ops[i].snr = snr
        /\ \E j \in 1..(i - 1) :
            /\ ops[j].op = "erase_all"
            /\ ops[j].ok
            /\ ops[j].snr = snr
            /\ \E k \in 1..(j - 1) :
                ops[k].op = "connect_to_emu_with_snr" /\ ops[k].ok /\ ops[k].snr = snr
    /\ (\E j \in OpsNamed("erase_all") : ~ops[j].ok) => OpsNamed("program_file") = {}
    /\ (target = "NRF52_APP" /\ pc \in {"nrf52_disconnect", "main_return"})
        => OpsNamed("program_file") # {}
    /\ target \in {"NRF91_APP", "NRF91_MODEM"} => OpsNamed("erase_all") = {}

C10_Witness ==
    /\ pc = "nrf52_disconnect"
    /\ \E i \in OpsNamed("program_file") : ops[i].ok
====
